---- MODULE Spec2Model ----
(***************************************************************************)
(* Model of train.py: the training flow of the money-laundering classifier *)
(* (generate_data, train_model, metric and artifact logging,               *)
(* register_model, report generation) and of the MLflow model registry it  *)
(* mutates.  The registry is shared between flow runs; everything else is  *)
(* local to one run of main_flow_training.                                 *)
(***************************************************************************)
EXTENDS Integers, Sequences, FiniteSets, TLC

\* ------------------------------------------------------------------ bounds
\* Largest number of rows of the dataset held in the bucket.
MaxRows == 2
\* Largest number of versions the registry holds (mlflow.register_model is
\* disabled beyond it).
MaxVersions == 3

\* The flow-run slots of the scheduler.
Flows == {"A", "B"}

\* ---------------------------------------------------------------- settings
\* settings.py is imported with `from settings import *`; the values are
\* stand-ins for its constants.
OUTPUT_COLUMN == "output"
MODEL_PARAMETERS == [target_column |-> "target", condition_value |-> "0"]

\* Values a cell of the target column can hold; "NaN" is a missing value.
NaN == "NaN"
TargetValues == {"0", "1", NaN}

\* ------------------------------------------------------------------ frames
\* A DataFrame: its column labels and its rows, each row a function from the
\* column labels to cell values.
Frame(columns, rows) == [columns |-> columns, rows |-> rows]

\* pd.DataFrame([]) : no columns, no rows.
NoData == Frame({}, <<>>)

SeqsUpTo(S, n) == UNION {[1..k -> S] : k \in 0..n}

\* The datasets the pickled object of the bucket can hold.
RawDatasets ==
    {NoData} \cup
    {Frame({MODEL_PARAMETERS.target_column}, rows) :
        rows \in SeqsUpTo([{MODEL_PARAMETERS.target_column} -> TargetValues], MaxRows)}

\* DataFrame.empty : true when any axis has length 0.
empty(data) == data.columns = {} \/ Len(data.rows) = 0

\* validate_data with the exception built but not raised.
validate_data_not_raised(data) == "None"

\* validate_data: the outcome of the task, "Exception" when it raises.
validate_data(data) == IF empty(data) THEN "Exception" ELSE "None"

\* Elementwise `==` of pandas, in the place of `!=`.
eq(a, b) == IF a = NaN \/ b = NaN THEN FALSE ELSE a = b

\* Elementwise `!=` of pandas: a missing value differs from everything.
ne(a, b) == IF a = NaN \/ b = NaN THEN TRUE ELSE a # b

\* .astype(int) of a boolean.
astype_int(b) == IF b THEN 1 ELSE 0

\* The assignment to OUTPUT_COLUMN inside FormatOutputColumn, for one row.
LabelOf(row) ==
    astype_int(ne(row[MODEL_PARAMETERS.target_column], MODEL_PARAMETERS.condition_value))

\* dataframe[OUTPUT_COLUMN] = (dataframe[target_column] != condition).astype(int)
FormatOutputColumn(df) ==
    LET cols == df.columns \cup {OUTPUT_COLUMN} IN
    Frame(cols,
          [i \in 1..Len(df.rows) |->
              [c \in cols |-> IF c = OUTPUT_COLUMN THEN LabelOf(df.rows[i])
                              ELSE df.rows[i][c]]])

\* The rows of s at the positions of I, in their order.
Pick(s, I) ==
    [k \in 1..Cardinality(I) |->
        s[CHOOSE i \in I : Cardinality({j \in I : j <= i}) = k]]

\* train_test_split(dataframe, test_size=TEST_SIZE): the library and TEST_SIZE
\* are outside the file, so every partition of the rows is an outcome.
train_test_split(df) ==
    {<<Frame(df.columns, Pick(df.rows, I)),
       Frame(df.columns, Pick(df.rows, (1..Len(df.rows)) \ I))>> :
        I \in SUBSET (1..Len(df.rows))}

\* ---------------------------------------------------------------- registry
\* The registry is the sequence of stage labels, indexed by version number.
\* search_model_versions(order_by=["version_number DESC"])
search_model_versions(reg) ==
    [i \in 1..Len(reg) |->
        [version |-> Len(reg) + 1 - i, current_stage |-> reg[Len(reg) + 1 - i]]]

\* The for loop of get_last_production_model: every match overrides.
RECURSIVE ScanModels(_, _, _)
ScanModels(models, i, mlflow_model) ==
    IF i > Len(models) THEN mlflow_model
    ELSE ScanModels(models, i + 1,
                    IF models[i].current_stage = "Production" THEN models[i]
                    ELSE mlflow_model)

\* get_last_production_model with a stage name no version ever carries.
get_last_production_model_no_match(reg) == search_model_versions(reg)[1].version

get_last_production_model(reg) ==
    LET mlflow_models == search_model_versions(reg) IN
    ScanModels(mlflow_models, 1, mlflow_models[1]).version

\* client.transition_model_version_stage(name, version, stage)
transition_model_version_stage(reg, version, stage) ==
    [reg EXCEPT ![version] = stage]

ProductionVersions(reg) == {v \in 1..Len(reg) : reg[v] = "Production"}

\* -------------------------------------------------------------------- state
VARIABLES
    source,         \* the dataset stored in the bucket
    limit,          \* how many flow runs the scheduler lets run at once
    stages,         \* the registry: stage label of each version
    pc,             \* per run: the call the flow is about to make
    train, test,    \* per run: the subsets generate_data holds
    validations,    \* per run: outcome of each submitted validate_data task
    logged,         \* per run: logger.error was called by generate_data
    version,        \* per run: result.version of mlflow.register_model
    old,            \* per run: old_production_version
    model_version,  \* per run: what register_model returned
    swallowed,      \* per run: the except clause of register_model was taken
    failedAt,       \* per run: the call whose exception ended the run
    steps,          \* per run: the steps of main_flow_training that returned
    raced,          \* two runs were inside register_model at the same time
    faulted         \* a call inside register_model has raised

vars == <<source, limit, stages, pc, train, test, validations, logged, version,
          old, model_version, swallowed, failedAt, steps, raced, faulted>>

\* The steps of main_flow_training, in the order of its body.
FlowOrder == <<"generate_data", "train_model", "log_metric", "log_model",
               "register_model", "generate_evidently_reports">>

\* Positions of a run inside register_model.
RegisterPcs == {"search_runs", "mlflow_register", "get_last_production_model",
                "promote", "demote"}

InitLocal ==
    /\ pc = [p \in Flows |-> "idle"]
    /\ train = [p \in Flows |-> NoData]
    /\ test = [p \in Flows |-> NoData]
    /\ validations = [p \in Flows |-> <<>>]
    /\ logged = [p \in Flows |-> FALSE]
    /\ version = [p \in Flows |-> 0]
    /\ old = [p \in Flows |-> 0]
    /\ model_version = [p \in Flows |-> 0]
    /\ swallowed = [p \in Flows |-> FALSE]
    /\ failedAt = [p \in Flows |-> "none"]
    /\ steps = [p \in Flows |-> <<>>]
    /\ raced = FALSE
    /\ faulted = FALSE

\* One flow run at a time, over every dataset, on a fresh registry.
Init ==
    /\ source \in RawDatasets
    /\ limit = 1
    /\ stages = <<>>
    /\ InitLocal

\* main_flow_training with register_model called before the model artifact
\* is logged.
Successor_register_first(at) ==
    CASE at = "generate_data" -> "train_model"
      [] at = "train_model" -> "log_metric"
      [] at = "log_metric" -> "search_runs"
      [] at = "search_runs" -> "mlflow_register"
      [] at = "mlflow_register" -> "get_last_production_model"
      [] at = "get_last_production_model" -> "promote"
      [] at = "promote" -> "demote"
      [] at = "demote" -> "log_model"
      [] at = "log_model" -> "generate_evidently_reports"
      [] at = "generate_evidently_reports" -> "done"

\* The successor of a position when its call returns.
Successor(at) ==
    CASE at = "generate_data" -> "train_model"
      [] at = "train_model" -> "log_metric"
      [] at = "log_metric" -> "log_model"
      [] at = "log_model" -> "search_runs"
      [] at = "search_runs" -> "mlflow_register"
      [] at = "mlflow_register" -> "get_last_production_model"
      [] at = "get_last_production_model" -> "promote"
      [] at = "promote" -> "demote"
      [] at = "demote" -> "generate_evidently_reports"
      [] at = "generate_evidently_reports" -> "done"

\* An uncaught exception of the call `at` ends the run.
Raise(p, at) ==
    /\ pc' = [pc EXCEPT ![p] = "failed"]
    /\ failedAt' = [failedAt EXCEPT ![p] = at]
    /\ faulted' = (faulted \/ pc[p] \in RegisterPcs)
    /\ UNCHANGED raced

\* The call at pc[p] returned.
Return(p) ==
    /\ pc' = [pc EXCEPT ![p] = Successor(pc[p])]
    /\ raced' = (raced \/ (Successor(pc[p]) \in RegisterPcs
                           /\ \E q \in Flows \ {p} : pc[q] \in RegisterPcs))
    /\ UNCHANGED failedAt

\* A step of main_flow_training returned.
Completed(p, step) == steps' = [steps EXCEPT ![p] = Append(@, step)]

\* python train.py: main_flow_training starts a tracking run and logs the
\* parameters.  A slot is taken from the start of the run to the exit of its
\* process.
StartRun(p) ==
    /\ pc[p] = "idle"
    /\ Cardinality({q \in Flows : pc[q] # "idle"}) < limit
    /\ pc' = [pc EXCEPT ![p] = "generate_data"]
    /\ UNCHANGED <<source, limit, stages, train, test, validations, logged,
                   version, old, model_version, swallowed, failedAt, steps,
                   raced, faulted>>

\* The process of a finished run exits: its locals are gone.
Exit(p) ==
    /\ pc[p] \in {"done", "failed"}
    /\ pc' = [pc EXCEPT ![p] = "idle"]
    /\ train' = [train EXCEPT ![p] = NoData]
    /\ test' = [test EXCEPT ![p] = NoData]
    /\ validations' = [validations EXCEPT ![p] = <<>>]
    /\ logged' = [logged EXCEPT ![p] = FALSE]
    /\ version' = [version EXCEPT ![p] = 0]
    /\ old' = [old EXCEPT ![p] = 0]
    /\ model_version' = [model_version EXCEPT ![p] = 0]
    /\ swallowed' = [swallowed EXCEPT ![p] = FALSE]
    /\ failedAt' = [failedAt EXCEPT ![p] = "none"]
    /\ steps' = [steps EXCEPT ![p] = <<>>]
    /\ UNCHANGED <<source, limit, stages, raced, faulted>>

\* generate_data: download_data, open or pickle.load raises (before the try).
generate_data_download_raises(p) ==
    /\ pc[p] = "generate_data"
    /\ Raise(p, "download_data")
    /\ UNCHANGED <<source, limit, stages, train, test, validations, logged,
                   version, old, model_version, swallowed, steps>>

\* generate_data: dataframe[target_column] raises KeyError (before the try).
generate_data_no_target(p) ==
    /\ pc[p] = "generate_data"
    /\ MODEL_PARAMETERS.target_column \notin source.columns
    /\ Raise(p, "target_column")
    /\ UNCHANGED <<source, limit, stages, train, test, validations, logged,
                   version, old, model_version, swallowed, steps>>

\* generate_data: train_test_split raises inside the try: logged, re-raised.
generate_data_split_raises(p) ==
    /\ pc[p] = "generate_data"
    /\ MODEL_PARAMETERS.target_column \in source.columns
    /\ logged' = [logged EXCEPT ![p] = TRUE]
    /\ Raise(p, "train_test_split")
    /\ UNCHANGED <<source, limit, stages, train, test, validations,
                   version, old, model_version, swallowed, steps>>

\* The two submissions of generate_data: both are given `train`.
SubmittedValidations(tr, te) == <<validate_data(tr), validate_data(tr)>>

\* generate_data from the split on.  A submitted task runs under the
\* scheduler: `surfaced` is whether the scheduler hands the failure of a
\* submitted task back to the submitting flow.
generate_data_split(p) ==
    /\ pc[p] = "generate_data"
    /\ MODEL_PARAMETERS.target_column \in source.columns
    /\ \E split \in train_test_split(FormatOutputColumn(source)), surfaced \in BOOLEAN :
        LET outcomes == SubmittedValidations(split[1], split[2]) IN
        /\ train' = [train EXCEPT ![p] = split[1]]
        /\ test' = [test EXCEPT ![p] = split[2]]
        /\ validations' = [validations EXCEPT ![p] = outcomes]
        /\ IF surfaced /\ \E i \in 1..Len(outcomes) : outcomes[i] = "Exception"
           THEN /\ logged' = [logged EXCEPT ![p] = TRUE]
                /\ Raise(p, "validate_data")
                /\ UNCHANGED steps
           ELSE /\ Return(p)
                /\ Completed(p, "generate_data")
                /\ UNCHANGED <<logged, faulted>>
    /\ UNCHANGED <<source, limit, stages, version, old, model_version, swallowed>>

generate_data(p) ==
    \/ generate_data_download_raises(p)
    \/ generate_data_no_target(p)
    \/ generate_data_split_raises(p)
    \/ generate_data_split(p)

\* A step of main_flow_training that touches only the tracking run: it
\* returns, or it raises and the run ends.
FlowStep(p, step) ==
    /\ pc[p] = step
    /\ \/ /\ Return(p)
          /\ Completed(p, step)
          /\ UNCHANGED faulted
       \/ /\ Raise(p, step)
          /\ UNCHANGED steps
    /\ UNCHANGED <<source, limit, stages, train, test, validations, logged,
                   version, old, model_version, swallowed>>

\* train_model: create_model, then calculate_metrics.
train_model(p) == FlowStep(p, "train_model")

\* mlflow.log_metric, twice.
log_metric(p) == FlowStep(p, "log_metric")

\* mlflow.sklearn.log_model
log_model(p) == FlowStep(p, "log_model")

\* register_model: get_experiment_by_name and search_runs.
search_runs(p) ==
    /\ pc[p] = "search_runs"
    /\ \/ Return(p) /\ UNCHANGED faulted
       \/ Raise(p, "search_runs")
    /\ UNCHANGED <<source, limit, stages, train, test, validations, logged,
                   version, old, model_version, swallowed, steps>>

\* register_model: mlflow.register_model creates the next version, stage "None".
mlflow_register_model(p) ==
    /\ pc[p] = "mlflow_register"
    /\ \/ /\ Len(stages) < MaxVersions
          /\ stages' = Append(stages, "None")
          /\ version' = [version EXCEPT ![p] = Len(stages) + 1]
          /\ Return(p)
          /\ UNCHANGED faulted
       \/ /\ Raise(p, "mlflow_register")
          /\ UNCHANGED <<stages, version>>
    /\ UNCHANGED <<source, limit, train, test, validations, logged,
                   old, model_version, swallowed, steps>>

\* register_model: old_production_version = get_last_production_model()
lookup_last_production(p) ==
    /\ pc[p] = "get_last_production_model"
    /\ \/ /\ old' = [old EXCEPT ![p] = get_last_production_model(stages)]
          /\ Return(p)
          /\ UNCHANGED faulted
       \/ /\ Raise(p, "get_last_production_model")
          /\ UNCHANGED old
    /\ UNCHANGED <<source, limit, stages, train, test, validations, logged,
                   version, model_version, swallowed, steps>>

\* register_model: the new version is moved to "Production".
promote(p) ==
    /\ pc[p] = "promote"
    /\ \/ /\ stages' = transition_model_version_stage(stages, version[p], "Production")
          /\ Return(p)
          /\ UNCHANGED faulted
       \/ /\ Raise(p, "promote")
          /\ UNCHANGED stages
    /\ UNCHANGED <<source, limit, train, test, validations, logged,
                   version, old, model_version, swallowed, steps>>

\* register_model returns `version` to main_flow_training.
register_model_returns(p) ==
    /\ model_version' = [model_version EXCEPT ![p] = version[p]]
    /\ Return(p)
    /\ Completed(p, "register_model")

\* demote with the stage of the promotion repeated.
demote_wrong_stage(p) ==
    /\ pc[p] = "demote"
    /\ stages' = transition_model_version_stage(stages, old[p], "Production")
    /\ register_model_returns(p)
    /\ UNCHANGED <<source, limit, train, test, validations, logged,
                   version, old, swallowed, faulted>>

\* register_model: the old production version is moved to "None".
demote(p) ==
    /\ pc[p] = "demote"
    /\ stages' = transition_model_version_stage(stages, old[p], "None")
    /\ register_model_returns(p)
    /\ UNCHANGED <<source, limit, train, test, validations, logged,
                   version, old, swallowed, faulted>>

\* demote_raises without the try: the exception leaves register_model.
demote_raises_uncaught(p) ==
    /\ pc[p] = "demote"
    /\ Raise(p, "demote")
    /\ UNCHANGED <<source, limit, stages, train, test, validations, logged,
                   version, old, model_version, swallowed, steps>>

\* register_model: the transition to "None" raises; except Exception: pass.
demote_raises(p) ==
    /\ pc[p] = "demote"
    /\ swallowed' = [swallowed EXCEPT ![p] = TRUE]
    /\ faulted' = TRUE
    /\ register_model_returns(p)
    /\ UNCHANGED <<source, limit, stages, train, test, validations, logged,
                   version, old>>

register_model(p) ==
    \/ search_runs(p)
    \/ mlflow_register_model(p)
    \/ lookup_last_production(p)
    \/ promote(p)
    \/ demote(p)
    \/ demote_raises(p)

\* generate_evidently_reports returns and the flow ends.
generate_evidently_reports(p) ==
    /\ pc[p] = "generate_evidently_reports"
    /\ Return(p)
    /\ Completed(p, "generate_evidently_reports")
    /\ UNCHANGED <<source, limit, stages, train, test, validations, logged,
                   version, old, model_version, swallowed, faulted>>

\* generate_evidently_reports raises: the run ends, nothing is undone.
generate_evidently_reports_raises(p) ==
    /\ pc[p] = "generate_evidently_reports"
    /\ Raise(p, "generate_evidently_reports")
    /\ UNCHANGED <<source, limit, stages, train, test, validations, logged,
                   version, old, model_version, swallowed, steps>>

main_flow_training(p) ==
    \/ StartRun(p)
    \/ generate_data(p)
    \/ train_model(p)
    \/ log_metric(p)
    \/ log_model(p)
    \/ register_model(p)
    \/ generate_evidently_reports(p)
    \/ generate_evidently_reports_raises(p)
    \/ Exit(p)

Next == \E p \in Flows : main_flow_training(p)

Spec == Init /\ [][Next]_vars

\* Two flow runs at once, on no data or a one-row dataset, on a fresh registry.
InitRace ==
    /\ source \in {NoData,
                    Frame({MODEL_PARAMETERS.target_column},
                          <<[c \in {MODEL_PARAMETERS.target_column} |-> "1"]>>)}
    /\ limit = 2
    /\ stages = <<>>
    /\ InitLocal

SpecRace == InitRace /\ [][Next]_vars

\* ------------------------------------------------------------------ claims
\* C1: after a register_model call that returned, with one run at a time,
\* exactly one version holds "Production" and it is the version returned.
C1_RegisterLeavesNewestInProduction ==
    \A p \in Flows :
        pc[p] = "generate_evidently_reports" =>
            ProductionVersions(stages) = {model_version[p]}

\* C2: get_last_production_model returns the highest version number when no
\* version holds "Production", and the version holding it when exactly one does.
C2_LookupDefaultAndSingle ==
    \A p \in Flows :
        pc[p] = "promote" =>
            LET P == ProductionVersions(stages) IN
            /\ P = {} => old[p] = Len(stages)
            /\ \A v \in P : P = {v} => old[p] = v

C2_Witness ==
    \E p \in Flows :
        /\ pc[p] = "promote"
        /\ Cardinality(ProductionVersions(stages)) = 1
        /\ old[p] < Len(stages)

\* C3: when the split yields an empty train or test subset (the validations
\* are submitted right after the split), generate_data logs and raises, so the
\* run ends there: nothing is trained or registered.
C3_EmptySplitAborts ==
    \A p \in Flows :
        (validations[p] # <<>> /\ (empty(train[p]) \/ empty(test[p]))) =>
            /\ pc[p] = "failed"
            /\ failedAt[p] = "validate_data"
            /\ logged[p]
            /\ steps[p] = <<>>
            /\ version[p] = 0

\* C4: validate_data raises exactly when its dataset has zero rows.
C4_ValidateRaisesIffNoRows ==
    \A p \in Flows :
        \A i \in 1..Len(validations[p]) :
            (validations[p][i] = "Exception") <=> (Len(train[p].rows) = 0)

C4_Witness ==
    \E p \in Flows :
        /\ validations[p] # <<>>
        /\ Len(train[p].rows) = 0
        /\ validations[p][1] = "Exception"

\* C5: in every row of the labeled dataset the output column is 1 when the
\* target column differs from the condition value, and 0 otherwise.
C5_OutputColumn ==
    \A p \in Flows :
        \A rows \in {train[p].rows, test[p].rows} :
            \A i \in 1..Len(rows) :
                rows[i][OUTPUT_COLUMN] =
                    IF rows[i][MODEL_PARAMETERS.target_column]
                           # MODEL_PARAMETERS.condition_value
                    THEN 1 ELSE 0

C5_Witness ==
    \E p \in Flows :
        /\ Len(train[p].rows) = 1 /\ train[p].rows[1][OUTPUT_COLUMN] = 1
        /\ Len(test[p].rows) = 1 /\ test[p].rows[1][OUTPUT_COLUMN] = 0

\* C6: with one run at a time, at most one version holds "Production" in
\* every registry state, the states inside register_model included.
C6_AtMostOneProduction == Cardinality(ProductionVersions(stages)) <= 1

\* C7: when more than one version holds "Production",
\* get_last_production_model returns the highest-numbered of them.
C7_FirstMatchWins ==
    \A p \in Flows :
        (pc[p] = "promote" /\ Cardinality(ProductionVersions(stages)) > 1) =>
            /\ old[p] \in ProductionVersions(stages)
            /\ \A v \in ProductionVersions(stages) : v <= old[p]

\* What holds of a run once a call inside register_model has raised.
C8_Swallowed ==
    \A p \in Flows :
        /\ failedAt[p] # "demote"
        /\ swallowed[p] =>
            /\ pc[p] \in {"generate_evidently_reports", "done", "failed"}
            /\ pc[p] = "failed" => failedAt[p] = "generate_evidently_reports"
            /\ model_version[p] = version[p]
            /\ version[p] \in 1..Len(stages)
            /\ stages[version[p]] = "Production"
        /\ failedAt[p] \in RegisterPcs =>
            /\ pc[p] = "failed"
            /\ model_version[p] = 0
            /\ ~swallowed[p]

\* The step in which the demotion raises.
C8_FailedStep ==
    \A p \in Flows :
        (pc[p] = "demote" /\ swallowed'[p]) => stages' = stages

\* C8: a failure of the transition of the prior version to "None" is
\* swallowed: register_model returns the new version, which keeps
\* "Production", and the failed step changes nothing in the registry; a
\* failure of an earlier call of register_model ends the run.
C8_DemotionFailureSwallowed == [](C8_Swallowed) /\ [][C8_FailedStep]_vars

C8_Witness ==
    \E p \in Flows :
        /\ swallowed[p]
        /\ pc[p] = "generate_evidently_reports"
        /\ old[p] # version[p]
        /\ stages[old[p]] = "Production"

\* C9: the lookup of the production version and the stage writes of
\* register_model are separate steps.  While no run is inside register_model
\* and no call of it has raised, a version older than the newest holds
\* "Production" only after two runs were inside register_model together; the
\* witness is such an outcome of two completed runs.
C9_StaleProductionNeedsOverlap ==
    (/\ \A p \in Flows : pc[p] \notin RegisterPcs
     /\ \E v \in 1..(Len(stages) - 1) : stages[v] = "Production")
        => (raced \/ faulted)

C9_Witness ==
    /\ \A p \in Flows : pc[p] = "done"
    /\ ~faulted
    /\ raced
    /\ ProductionVersions(stages) # {Len(stages)}
    /\ \E v \in 1..(Len(stages) - 1) : stages[v] = "Production"

\* The steps that returned, and where a raising step leaves the run.
C10_Order ==
    \A p \in Flows :
        /\ steps[p] = SubSeq(FlowOrder, 1, Len(steps[p]))
        /\ failedAt[p] # "none" => pc[p] = "failed"
        /\ failedAt[p] = "generate_evidently_reports" =>
            /\ Len(steps[p]) = 5
            /\ model_version[p] \in 1..Len(stages)
        /\ failedAt[p] \in {"download_data", "target_column", "train_test_split",
                            "validate_data", "train_model", "log_metric",
                            "log_model"} =>
            /\ version[p] = 0
            /\ Len(steps[p]) < 4

\* A step of a run outside register_model.
C10_NoCompensation ==
    \A p \in Flows :
        (pc[p] \notin RegisterPcs /\ pc'[p] # pc[p]) => stages' = stages

\* C10: the steps of main_flow_training return in the order of its body; a
\* step that raises ends the run and nothing is undone: a failure of the
\* report generation leaves the new version registered, and the steps outside
\* register_model leave the registry as it is.
C10_SequentialNoRollback == [](C10_Order) /\ [][C10_NoCompensation]_vars

C10_Witness ==
    \E p \in Flows :
        /\ pc[p] = "failed"
        /\ failedAt[p] = "generate_evidently_reports"
        /\ model_version[p] = Len(stages)
        /\ stages[model_version[p]] = "Production"

====
